---- MODULE Spec2Model ----
(***************************************************************************)
(* prep.c: a recursive, multi-threaded whole-word search (grep -Rnw like). *)
(* One walker thread (main -> ls) traverses the directory tree and starts  *)
(* one detached thread (analyze_file) per entry it could fopen, throttled  *)
(* by the counting semaphore sem.                                          *)
(*                                                                         *)
(* Text is modelled as sequences of one-character strings.  The file       *)
(* system is an input: a function from paths to nodes, drawn in Init from  *)
(* a fixed set of trees.  The output stream is kept per file (the order    *)
(* of lines of different files in stdout is left out; the order and the    *)
(* number of the lines of one file are kept).                              *)
(***************************************************************************)
EXTENDS Integers, Sequences, FiniteSets, TLC

(***************************************************************************)
(* Bounds and program constants                                            *)
(***************************************************************************)
\* get_nprocs() of the host (prep.c:228): the largest admissible -t value.
NumCores == 2

\* const int line_sz = 100 (prep.c:113): fgets reads at most line_sz-1 chars.
line_sz == 100

(***************************************************************************)
(* Characters and strings                                                  *)
(***************************************************************************)
\* char delimit[] (prep.c:52)
delimit ==
    {" ", "\t", "\r", "\n", ".", ",", ":", "?", "!", "`", "(", ")", "[", "]",
     "-", "/", "'", "\"", "<", ">"}

UpperCase ==
    <<"A","B","C","D","E","F","G","H","I","J","K","L","M",
      "N","O","P","Q","R","S","T","U","V","W","X","Y","Z">>

LowerCase ==
    <<"a","b","c","d","e","f","g","h","i","j","k","l","m",
      "n","o","p","q","r","s","t","u","v","w","x","y","z">>

\* tolower(3) as strcasecmp applies it to each byte.
tolower(c) ==
    IF \E i \in 1..26 : UpperCase[i] = c
    THEN LowerCase[CHOOSE i \in 1..26 : UpperCase[i] = c]
    ELSE c

Min(S) == CHOOSE x \in S : \A y \in S : x <= y

\* The recursive definitions below are functions, not operators: a
\* function is applied to the value of its argument.
Text == Seq(STRING)

\* strcmp(3): 0 iff the two strings are byte-for-byte equal.  Only the test
\* result == 0 is used by the caller, so every non-zero result is 1.
strcmp[a \in Text, b \in Text] ==
    IF a = <<>> /\ b = <<>> THEN 0
    ELSE IF a = <<>> \/ b = <<>> THEN 1
    ELSE IF Head(a) # Head(b) THEN 1
    ELSE strcmp[Tail(a), Tail(b)]

\* strcasecmp(3): compares tolower of each byte.
strcasecmp[a \in Text, b \in Text] ==
    IF a = <<>> /\ b = <<>> THEN 0
    ELSE IF a = <<>> \/ b = <<>> THEN 1
    ELSE IF tolower(Head(a)) # tolower(Head(b)) THEN 1
    ELSE strcasecmp[Tail(a), Tail(b)]

\* Length of the leading run of delimiters / of non-delimiters of s.
strspn[s \in Text] ==
    Min({i \in 1..Len(s) : s[i] \notin delimit} \cup {Len(s) + 1}) - 1

strcspn[s \in Text] ==
    Min({i \in 1..Len(s) : s[i] \in delimit} \cup {Len(s) + 1}) - 1

\* The words the strtok_r loop of analyze_file yields for one chunk:
\* strtok_r skips leading delimiters, returns the run up to the next
\* delimiter, overwrites that delimiter and resumes after it.
strtok_r[s \in Text] ==
    LET s1 == SubSeq(s, strspn[s] + 1, Len(s))
        n  == strcspn[s1]
    IN  IF s1 = <<>> THEN <<>>
        ELSE <<SubSeq(s1, 1, n)>> \o strtok_r[SubSeq(s1, n + 2, Len(s1))]

\* fgets(line, line_sz, file) at byte offset pos of content: the number of
\* bytes returned; 0 stands for NULL (end of file).
fgets(content, pos) ==
    LET rem == Len(content) - pos
        cap == IF rem < line_sz - 1 THEN rem ELSE line_sz - 1
        nl  == {i \in 1..cap : content[pos + i] = "\n"}
    IN  IF nl # {} THEN Min(nl) ELSE cap

(***************************************************************************)
(* Inputs: file contents, directory trees, command lines                   *)
(***************************************************************************)
NL == <<"\n">>
SP == <<" ">>
w_the == <<"t","h","e">>
w_The == <<"T","h","e">>
w_THE == <<"T","H","E">>
w_theme == <<"t","h","e","m","e">>
w_cat == <<"c","a","t">>
w_sat == <<"s","a","t">>
w_nap == <<"n","a","p">>
w_park == <<"p","a","r","k">>
w_hello == <<"h","e","l","l","o">>
w_world == <<"w","o","r","l","d">>

\* A run of n filler characters.
Pad(n) == [i \in 1..n |-> "x"]

\* One physical line longer than the fgets cap: the cap falls inside its
\* last word "theme", after "the".
LongLine == Pad(line_sz - 5) \o SP \o w_theme \o NL

\* The root every command line names (g_search_dir, prep.c:236).
SearchDir == "/root"

Dir(par, statOK, openOK) ==
    [kind |-> "dir", parent |-> par, statOK |-> statOK, openOK |-> openOK,
     content |-> <<>>]

File(par, statOK, openOK, content) ==
    [kind |-> "file", parent |-> par, statOK |-> statOK, openOK |-> openOK,
     content |-> content]

\* two files: a.txt = [hello world, the cat sat], b.txt = [theme park, cat nap]
TreeScenario ==
    ("/root" :> Dir("", TRUE, TRUE))
    @@ ("/root/a.txt" :> File("/root", TRUE, TRUE,
            w_hello \o SP \o w_world \o NL \o w_the \o SP \o w_cat \o SP \o w_sat \o NL))
    @@ ("/root/b.txt" :> File("/root", TRUE, TRUE,
            w_theme \o SP \o w_park \o NL \o w_cat \o SP \o w_nap \o NL))

TreeEmpty == ("/root" :> Dir("", TRUE, TRUE))

\* the start directory cannot be opened
TreeBadRoot ==
    ("/root" :> Dir("", TRUE, FALSE))
    @@ ("/root/a.txt" :> File("/root", TRUE, TRUE, w_the \o NL))

\* a subdirectory, an unreadable file, letter-case variants, a last line
\* without newline
TreeNested ==
    ("/root" :> Dir("", TRUE, TRUE))
    @@ ("/root/sub" :> Dir("/root", TRUE, TRUE))
    @@ ("/root/sub/c.txt" :> File("/root/sub", TRUE, TRUE,
            w_The \o <<".">> \o NL \o NL \o w_theme \o <<",">> \o w_THE))
    @@ ("/root/sub/d.txt" :> File("/root/sub", TRUE, TRUE, w_cat \o SP \o w_the \o NL))
    @@ ("/root/x.txt" :> File("/root", TRUE, FALSE, w_the \o NL))

\* a physical line longer than line_sz - 1
TreeLong ==
    ("/root" :> Dir("", TRUE, TRUE))
    @@ ("/root/long.txt" :> File("/root", TRUE, TRUE, LongLine \o w_cat \o NL))

\* a directory that can be listed but not searched (stat of its entries
\* fails), a directory that cannot be opened, and a readable file
TreeDenied ==
    ("/root" :> Dir("", TRUE, TRUE))
    @@ ("/root/d" :> Dir("/root", TRUE, TRUE))
    @@ ("/root/d/f.txt" :> File("/root/d", FALSE, FALSE, w_the \o NL))
    @@ ("/root/p" :> Dir("/root", TRUE, FALSE))
    @@ ("/root/p/g.txt" :> File("/root/p", TRUE, TRUE, w_the \o NL))
    @@ ("/root/e.txt" :> File("/root", TRUE, TRUE, w_cat \o <<"-">> \o w_THE \o NL))

Trees ==
    {TreeScenario, TreeEmpty, TreeBadRoot, TreeNested, TreeLong, TreeDenied}

TermLists ==
    {<<w_the, w_cat>>, <<w_the>>, <<w_THE, w_the>>, <<<<>>>>}

Digits == <<"0","1","2","3","4","5","6","7","8","9">>

\* The decimal numeral of n, 0 <= n <= 9.
Numeral(n) == <<Digits[n + 1]>>

\* The arguments given to -t: the numerals from 0 to one more than the
\* number of processors, and three that are no numerals.
ThreadArgs ==
    {Numeral(n) : n \in 0..(NumCores + 1)}
    \cup {<<"a","b","c">>, <<"2","x">>, <<"-","1">>}

\* The options of a command line: -e, -t <arg> (has_t says whether -t is
\* given; t is its argument, optarg), and the search terms.
CommandLines ==
    {a \in [e : BOOLEAN, has_t : BOOLEAN, t : ThreadArgs \cup {<<>>},
            terms : TermLists] :
        a.has_t <=> a.t # <<>>}

Children(tree, d) == {n \in DOMAIN tree : tree[n].parent = d}

(***************************************************************************)
(* State                                                                   *)
(***************************************************************************)
VARIABLES
    fs,             \* the directory tree under SearchDir (not modified)
    argv,           \* the command line (not modified)
    g_exact,        \* bool g_exact (prep.c:49)
    g_search_terms, \* g_search_terms[0 .. g_num_terms-1] (prep.c:50-51)
    sem_initialised,\* whether sem_init has run
    sem,            \* the value of sem_t sem (prep.c:54)
    main_pc,        \* where main is: "getopt", "ls", "exited", "aborted"
    stack,          \* the activations of ls, innermost last
    task,           \* per path: the analyze_file thread started on its handle:
                    \* its position pc, its locals ptest and line_num, and
                    \* the offset pos of its stream
    handles,        \* the paths with an open FILE* (fopen done, fclose not)
    output,         \* per path: the match lines its thread printed, in order
    diag,           \* per path: the number of perror calls it caused
    cmplog,         \* the word/term comparisons analyze_file has made
    proc,           \* the process: "running", "exited", "aborted"
    exit_status,    \* its exit status once it has ended (-1 before)
    calls           \* per path: the calls the walker and the path's worker
                    \* have made on it so far, in order (a record of the run)

vars ==
    <<fs, argv, g_exact, g_search_terms, sem_initialised, sem, main_pc, stack,
      task, handles, output, diag, cmplog, proc, exit_status, calls>>

g_num_terms == Len(g_search_terms)

Paths == DOMAIN fs

\* a thread whose line counter starts at 1
NoTaskFromOne == [pc |-> "none", ptest |-> "", line_num |-> 1, pos |-> 0]

NoTask == [pc |-> "none", ptest |-> "", line_num |-> 0, pos |-> 0]

Frame(path) == [path |-> path, pc |-> "opendir", todo |-> {}, cur |-> ""]

Top == stack[Len(stack)]

SetTop(f) == [stack EXCEPT ![Len(stack)] = f]

Pop == SubSeq(stack, 1, Len(stack) - 1)

\* calls with one more call on path p by thread who ("walker", "worker").
Called(p, who, call) == [calls EXCEPT ![p][who] = Append(@, call)]

Init ==
    /\ fs \in Trees
    /\ argv \in CommandLines
    /\ g_exact = FALSE
    /\ g_search_terms = <<>>
    /\ sem_initialised = FALSE
    /\ sem = 0
    /\ main_pc = "getopt"
    /\ stack = <<>>
    /\ task = [p \in DOMAIN fs |-> NoTask]
    /\ handles = {}
    /\ output = [p \in DOMAIN fs |-> <<>>]
    /\ diag = [p \in DOMAIN fs |-> 0]
    /\ cmplog = {}
    /\ proc = "running"
    /\ exit_status = -1
    /\ calls = [p \in DOMAIN fs |-> [walker |-> <<>>, worker |-> <<>>]]

(***************************************************************************)
(* main                                                                    *)
(***************************************************************************)
isdigit(c) == \E i \in 1..10 : Digits[i] = c

\* The digits atoi converts: it stops at the first character that is none.
RECURSIVE atoi_digits(_, _)
atoi_digits(s, acc) ==
    IF s = <<>> \/ ~isdigit(Head(s)) THEN acc
    ELSE atoi_digits(Tail(s),
                     acc * 10 + (CHOOSE i \in 1..10 : Digits[i] = Head(s)) - 1)

\* Length of the leading white space of s (isspace).
RECURSIVE atoi_space(_)
atoi_space(s) ==
    IF s = <<>> \/ Head(s) \notin {" ", "\t", "\n", "\r"} THEN 0
    ELSE 1 + atoi_space(Tail(s))

\* atoi(3): leading white space, an optional sign, then the leading digits;
\* what follows them is ignored, and no digit at all gives 0.
atoi(s) ==
    LET s1 == SubSeq(s, atoi_space(s) + 1, Len(s))
        sg == s1 # <<>> /\ Head(s1) \in {"-", "+"}
        s2 == IF sg THEN Tail(s1) ELSE s1
    IN  IF sg /\ Head(s1) = "-" THEN 0 - atoi_digits(s2, 0) ELSE atoi_digits(s2, 0)

\* int max_threads = num_cores, overwritten by atoi(optarg) of -t.
max_threads(a) == IF a.has_t THEN atoi(a.t) ELSE NumCores

\* The -t check of main: max_threads < 1 || max_threads > num_cores.
InvalidThreads(a) ==
    a.has_t /\ (max_threads(a) < 1 \/ max_threads(a) > NumCores)

\* abort() raises SIGABRT: the shell sees 128 + 6.
AbortStatus == 134

\* getopt loop, case 't' with a value outside [1, num_cores]: abort().
main_abort ==
    /\ proc = "running" /\ main_pc = "getopt"
    /\ InvalidThreads(argv)
    /\ main_pc' = "aborted"
    /\ proc' = "aborted"
    /\ exit_status' = AbortStatus
    /\ UNCHANGED <<fs, argv, g_exact, g_search_terms, sem_initialised, sem,
                   stack, task, handles, output, diag, cmplog,
                   calls>>

\* getopt loop without error, sem_init, the globals, and the call ls(g_search_dir).
main_start ==
    /\ proc = "running" /\ main_pc = "getopt"
    /\ ~InvalidThreads(argv)
    /\ g_exact' = argv.e
    /\ sem_initialised' = TRUE
    /\ sem' = max_threads(argv)
    /\ g_search_terms' = argv.terms
    /\ main_pc' = "ls"
    /\ stack' = <<Frame(SearchDir)>>
    /\ UNCHANGED <<fs, argv, task, handles, output, diag, cmplog, proc,
                   exit_status,
                   calls>>

\* ls has returned: pthread_exit(0) ends the main thread only.
main_pthread_exit ==
    /\ proc = "running" /\ main_pc = "ls" /\ stack = <<>>
    /\ main_pc' = "exited"
    /\ UNCHANGED <<fs, argv, g_exact, g_search_terms, sem_initialised, sem,
                   stack, task, handles, output, diag, cmplog, proc,
                   exit_status,
                   calls>>

\* A thread analyze_file was started on and that has not returned.
LiveThreads ==
    {p \in Paths : task[p].pc \in {"start", "scan", "sem_post", "fclose"}}

\* main ends with return 0 (exit) instead of pthread_exit(0): the process
\* ends at once, whatever its threads are doing.
MainReturns == TRUE

\* pthread_exit(3) in main: the process lives on until the last thread has
\* terminated.
AllThreadsTerminated == LiveThreads = {}

\* "After the last thread in a process terminates, the process terminates
\* as by calling exit(3) with an exit status of zero."
process_exit ==
    /\ proc = "running" /\ main_pc = "exited"
    /\ AllThreadsTerminated
    /\ proc' = "exited"
    /\ exit_status' = 0
    /\ UNCHANGED <<fs, argv, g_exact, g_search_terms, sem_initialised, sem,
                   main_pc, stack, task, handles, output, diag, cmplog,
                   calls>>

(***************************************************************************)
(* ls: the walker                                                          *)
(***************************************************************************)
InLs == proc = "running" /\ main_pc = "ls" /\ stack # <<>>

\* opendir(path) returns a stream: path is a directory that can be read.
opendir_ok(path) == fs[path].kind = "dir" /\ fs[path].openOK

\* fopen(buffer, "r") returns a stream: open(2) with O_RDONLY succeeds on
\* every readable entry, a directory included.
fopen_ok(path) == fs[path].openOK

\* S_ISDIR(stat_buffer.st_mode)
S_ISDIR(path) == fs[path].kind = "dir"

\* The stack once the walker is done with stream handling of entry e of the
\* activation at the top: the S_ISDIR test, the recursive call ls(buffer) or
\* the next round of the readdir loop.
AfterFile(e) ==
    LET back == SetTop([Top EXCEPT !.pc = "readdir", !.cur = "",
                                   !.todo = Top.todo \ {e}])
    IN  IF S_ISDIR(e) THEN Append(back, Frame(e)) ELSE back

\* DIR *directory = opendir(path) succeeded.
ls_opendir ==
    /\ InLs /\ Top.pc = "opendir"
    /\ opendir_ok(Top.path)
    /\ stack' = SetTop([Top EXCEPT !.pc = "readdir",
                                   !.todo = Children(fs, Top.path)])
    /\ calls' = Called(Top.path, "walker", "ls")
    /\ UNCHANGED <<fs, argv, g_exact, g_search_terms, sem_initialised, sem,
                   main_pc, task, handles, output, diag, cmplog, proc,
                   exit_status>>

\* opendir(path) returned NULL: perror(NULL) and return.
ls_opendir_fail ==
    /\ InLs /\ Top.pc = "opendir"
    /\ ~opendir_ok(Top.path)
    /\ diag' = [diag EXCEPT ![Top.path] = @ + 1]
    /\ stack' = Pop
    /\ calls' = Called(Top.path, "walker", "ls")
    /\ UNCHANGED <<fs, argv, g_exact, g_search_terms, sem_initialised, sem,
                   main_pc, task, handles, output, cmplog, proc, exit_status>>

\* readdir returned NULL: closedir(directory) and return.
ls_closedir ==
    /\ InLs /\ Top.pc = "readdir"
    /\ Top.todo = {}
    /\ stack' = Pop
    /\ UNCHANGED <<fs, argv, g_exact, g_search_terms, sem_initialised, sem,
                   main_pc, task, handles, output, diag, cmplog, proc,
                   exit_status,
                   calls>>

\* readdir returned entry e (in any order) and stat(buffer) failed: the
\* entry is dropped without a message.
ls_stat_fail ==
    /\ InLs /\ Top.pc = "readdir"
    /\ \E e \in Top.todo :
        /\ ~fs[e].statOK
        /\ stack' = SetTop([Top EXCEPT !.todo = @ \ {e}])
    /\ UNCHANGED <<fs, argv, g_exact, g_search_terms, sem_initialised, sem,
                   main_pc, task, handles, output, diag, cmplog, proc,
                   exit_status,
                   calls>>

\* stat succeeded and fopen(buffer, "r") returned NULL: perror(NULL), then
\* the S_ISDIR test.
ls_fopen_fail ==
    /\ InLs /\ Top.pc = "readdir"
    /\ \E e \in Top.todo :
        /\ fs[e].statOK
        /\ ~fopen_ok(e)
        /\ diag' = [diag EXCEPT ![e] = @ + 1]
        /\ stack' = AfterFile(e)
    /\ UNCHANGED <<fs, argv, g_exact, g_search_terms, sem_initialised, sem,
                   main_pc, task, handles, output, cmplog, proc, exit_status,
                   calls>>

\* a walker that dispatches without taking a slot
ls_fopen_no_wait ==
    /\ InLs /\ Top.pc = "readdir"
    /\ \E e \in Top.todo :
        /\ fs[e].statOK
        /\ fopen_ok(e)
        /\ handles' = handles \cup {e}
        /\ calls' = Called(e, "walker", "fopen")
        /\ stack' = SetTop([Top EXCEPT !.pc = "create", !.cur = e])
    /\ UNCHANGED <<fs, argv, g_exact, g_search_terms, sem_initialised, sem,
                   main_pc, task, output, diag, cmplog, proc, exit_status>>

\* stat succeeded and fopen(buffer, "r") returned a stream.
ls_fopen ==
    /\ InLs /\ Top.pc = "readdir"
    /\ \E e \in Top.todo :
        /\ fs[e].statOK
        /\ fopen_ok(e)
        /\ handles' = handles \cup {e}
        /\ calls' = Called(e, "walker", "fopen")
        /\ stack' = SetTop([Top EXCEPT !.pc = "sem_wait", !.cur = e])
    /\ UNCHANGED <<fs, argv, g_exact, g_search_terms, sem_initialised, sem,
                   main_pc, task, output, diag, cmplog, proc, exit_status>>

\* a sem_wait that returns without waiting for a positive value
sem_wait_nonblocking == TRUE

\* sem_wait returns only when it could decrement a positive value.
sem_wait_enabled == sem > 0

\* a sem_wait that leaves the value as it is
ls_sem_wait_no_decrement ==
    /\ InLs /\ Top.pc = "sem_wait"
    /\ sem_wait_enabled
    /\ stack' = SetTop([Top EXCEPT !.pc = "create"])
    /\ calls' = Called(Top.cur, "walker", "sem_wait")
    /\ UNCHANGED <<fs, argv, g_exact, g_search_terms, sem_initialised, sem,
                   main_pc, task, handles, output, diag, cmplog, proc,
                   exit_status>>

\* sem_wait(&sem)
ls_sem_wait ==
    /\ InLs /\ Top.pc = "sem_wait"
    /\ sem_wait_enabled
    /\ sem' = sem - 1
    /\ stack' = SetTop([Top EXCEPT !.pc = "create"])
    /\ calls' = Called(Top.cur, "walker", "sem_wait")
    /\ UNCHANGED <<fs, argv, g_exact, g_search_terms, sem_initialised,
                   main_pc, task, handles, output, diag, cmplog, proc,
                   exit_status>>

\* pthread_create(&thread_id, NULL, analyze_file, f), then the S_ISDIR test.
ls_pthread_create ==
    /\ InLs /\ Top.pc = "create"
    /\ task' = [task EXCEPT ![Top.cur] = [NoTask EXCEPT !.pc = "start"]]
    /\ stack' = AfterFile(Top.cur)
    /\ calls' = Called(Top.cur, "walker", "pthread_create")
    /\ UNCHANGED <<fs, argv, g_exact, g_search_terms, sem_initialised, sem,
                   main_pc, handles, output, diag, cmplog, proc, exit_status>>

\* pthread_create returned an error (EAGAIN: no resources for another
\* thread).  ls does not look at the return value: no thread runs
\* analyze_file on the stream, and the walk goes on.
ls_pthread_create_fail ==
    /\ InLs /\ Top.pc = "create"
    /\ calls' = Called(Top.cur, "walker", "pthread_create")
    /\ stack' = AfterFile(Top.cur)
    /\ UNCHANGED <<fs, argv, g_exact, g_search_terms, sem_initialised, sem,
                   main_pc, task, handles, output, diag, cmplog, proc,
                   exit_status>>

(***************************************************************************)
(* analyze_file: one thread per stream                                     *)
(***************************************************************************)
\* What printf shows for a NULL string argument.
NullName == "(null)"

\* recover_filename(f): readlink of /proc/self/fd/<fd>.  /proc/self is the
\* directory of the thread group leader, the main thread; once that thread
\* has ended (pthread_exit) its fd directory is gone, readlink fails and
\* the function returns NULL.
recover_filename(p) == IF main_pc = "exited" THEN NullName ELSE p

\* The start of the thread: char *ptest = recover_filename(file), the
\* other locals, pthread_detach(pthread_self()).
analyze_start(p) ==
    /\ proc = "running" /\ task[p].pc = "start"
    /\ task' = [task EXCEPT ![p].pc = "scan", ![p].ptest = recover_filename(p)]
    /\ calls' = Called(p, "worker", "analyze_file")
    /\ UNCHANGED <<fs, argv, g_exact, g_search_terms, sem_initialised, sem,
                   main_pc, stack, handles, output, diag, cmplog, proc,
                   exit_status>>

\* a comparison that ignores g_exact and is always byte-exact
compare_always_exact(word, term) == strcmp[word, term]

\* result = g_exact ? strcmp(word, term) : strcasecmp(word, term)
compare(word, term) ==
    IF g_exact THEN strcmp[word, term] ELSE strcasecmp[word, term]

\* The for loop over the terms for one word, entered at index i with the
\* flag found: the comparisons it makes, in order, each with whether it
\* printed the line.  It breaks after a print.
term_loop[word \in Text, i \in Nat, found \in BOOLEAN] ==
    IF i > g_num_terms THEN <<>>
    ELSE LET result == compare(word, g_search_terms[i])
             rec(pr) == [word |-> word, term |-> g_search_terms[i],
                         result |-> result, printed |-> pr]
         IN  IF result = 0 /\ ~found
             THEN <<rec(TRUE)>>
             ELSE <<rec(FALSE)>> \o term_loop[word, i + 1, found]

\* The while loop over the words of one chunk: found is reset to 0 after
\* the for loop of every word.
word_loop[words \in Seq(Text), found \in BOOLEAN] ==
    IF words = <<>> THEN <<>>
    ELSE term_loop[Head(words), 1, found] \o word_loop[Tail(words), FALSE]

\* What fgets reads from the stream of path at offset pos: a directory
\* stream fails at once (EISDIR), a file yields its next chunk.
fgets_len(path, pos) ==
    IF fs[path].kind = "dir" THEN 0 ELSE fgets(fs[path].content, pos)

\* printf("%s:%d:%s\n", ptest, line_num, match_line) once per printing
\* comparison of the chunk.
printed_lines(cmps, ptest, line_num, chunk) ==
    [i \in 1..Cardinality({j \in 1..Len(cmps) : cmps[j].printed})
        |-> [path |-> ptest, line_num |-> line_num, text |-> chunk]]

\* One round of the fgets loop: read a chunk, tokenize it, compare every
\* word with the terms, print, line_num++.
analyze_chunk(p) ==
    /\ proc = "running" /\ task[p].pc = "scan"
    /\ fgets_len(p, task[p].pos) > 0
    /\ LET n     == fgets_len(p, task[p].pos)
           chunk == SubSeq(fs[p].content, task[p].pos + 1, task[p].pos + n)
           cmps  == word_loop[strtok_r[chunk], FALSE]
       IN  /\ output' = [output EXCEPT ![p] =
                            @ \o printed_lines(cmps, task[p].ptest,
                                              task[p].line_num, chunk)]
           /\ cmplog' = cmplog \cup {cmps[j] : j \in 1..Len(cmps)}
           /\ task' = [task EXCEPT ![p].line_num = @ + 1, ![p].pos = @ + n]
    /\ UNCHANGED <<fs, argv, g_exact, g_search_terms, sem_initialised, sem,
                   main_pc, stack, handles, diag, proc, exit_status,
                   calls>>

\* a thread that leaves the loop and goes straight to fclose, without sem_post
analyze_eof_without_post(p) ==
    /\ proc = "running" /\ task[p].pc = "scan"
    /\ fgets_len(p, task[p].pos) = 0
    /\ task' = [task EXCEPT ![p].pc = "fclose"]
    /\ UNCHANGED <<fs, argv, g_exact, g_search_terms, sem_initialised, sem,
                   main_pc, stack, handles, output, diag, cmplog, proc,
                   exit_status, calls>>

\* fgets returned NULL (end of file or read error): leave the loop, free(line).
analyze_eof(p) ==
    /\ proc = "running" /\ task[p].pc = "scan"
    /\ fgets_len(p, task[p].pos) = 0
    /\ task' = [task EXCEPT ![p].pc = "sem_post"]
    /\ UNCHANGED <<fs, argv, g_exact, g_search_terms, sem_initialised, sem,
                   main_pc, stack, handles, output, diag, cmplog, proc,
                   exit_status,
                   calls>>

\* sem_post(&sem)
analyze_sem_post(p) ==
    /\ proc = "running" /\ task[p].pc = "sem_post"
    /\ sem' = sem + 1
    /\ task' = [task EXCEPT ![p].pc = "fclose"]
    /\ calls' = Called(p, "worker", "sem_post")
    /\ UNCHANGED <<fs, argv, g_exact, g_search_terms, sem_initialised,
                   main_pc, stack, handles, output, diag, cmplog, proc,
                   exit_status>>

\* fclose(file); return NULL: the detached thread ends.
analyze_fclose(p) ==
    /\ proc = "running" /\ task[p].pc = "fclose"
    /\ handles' = handles \ {p}
    /\ task' = [task EXCEPT ![p].pc = "done"]
    /\ calls' = Called(p, "worker", "fclose")
    /\ UNCHANGED <<fs, argv, g_exact, g_search_terms, sem_initialised, sem,
                   main_pc, stack, output, diag, cmplog, proc, exit_status>>

analyze_file ==
    \E p \in Paths :
        \/ analyze_start(p)
        \/ analyze_chunk(p)
        \/ analyze_eof(p)
        \/ analyze_sem_post(p)
        \/ analyze_fclose(p)

ls ==
    \/ ls_opendir
    \/ ls_opendir_fail
    \/ ls_closedir
    \/ ls_stat_fail
    \/ ls_fopen_fail
    \/ ls_fopen
    \/ ls_sem_wait
    \/ ls_pthread_create

main ==
    \/ main_abort
    \/ main_start
    \/ main_pthread_exit

Next ==
    \/ main
    \/ ls
    \/ analyze_file
    \/ process_exit

\* Every pthread_create succeeds.
Spec == Init /\ [][Next]_vars

\* pthread_create may fail.
NextCreateFail ==
    \/ Next
    \/ ls_pthread_create_fail

SpecCreateFail == Init /\ [][NextCreateFail]_vars

\* Every path of every tree.
AllPaths == UNION {DOMAIN t : t \in Trees}

\* The steps of the thread started on the stream of p.
worker(p) ==
    /\ p \in Paths
    /\ \/ analyze_start(p)
       \/ analyze_chunk(p)
       \/ analyze_eof(p)
       \/ analyze_sem_post(p)
       \/ analyze_fclose(p)

\* The runs whose behaviours are checked to their end: the trees with short
\* files, one term list.
InitLive ==
    /\ Init
    /\ fs \in {TreeScenario, TreeEmpty, TreeBadRoot, TreeDenied}
    /\ argv.terms = <<w_the, w_cat>>

\* Fair scheduling: the main thread and every started thread keep taking
\* the steps they can take, and the process ends once its last thread has.
FairSpecCreateFail ==
    /\ InitLive /\ [][NextCreateFail]_vars
    /\ WF_vars(main \/ ls \/ ls_pthread_create_fail)
    /\ WF_vars(process_exit)
    /\ \A p \in AllPaths : WF_vars(worker(p))

(***************************************************************************)
(* Reference notions used by the properties                                *)
(***************************************************************************)
\* The value the semaphore is initialised with.
K == max_threads(argv)

\* a and b are the same character, or the two cases of one letter.
SameLetter(a, b) ==
    a = b \/ \E i \in 1..26 : {a, b} = {UpperCase[i], LowerCase[i]}

\* Word w equals term t under the case mode.
EqualUnderMode(w, t, exact) ==
    IF exact THEN w = t
    ELSE Len(w) = Len(t) /\ \A i \in 1..Len(w) : SameLetter(w[i], t[i])

\* text[i..j] is a delimiter-bounded word of text.
IsWordAt(text, i, j) ==
    /\ 1 <= i /\ i <= j /\ j <= Len(text)
    /\ \A k \in i..j : text[k] \notin delimit
    /\ i = 1 \/ text[i - 1] \in delimit
    /\ j = Len(text) \/ text[j + 1] \in delimit

\* text holds a delimiter-bounded word equal to one of the terms.
Qualifies(text, terms, exact) ==
    \E i \in 1..Len(text), k \in 1..Len(terms) :
        LET j == i + Len(terms[k]) - 1
        IN  IsWordAt(text, i, j) /\ EqualUnderMode(SubSeq(text, i, j), terms[k], exact)

\* text holds one of the (non-empty) terms as a contiguous substring.
HasSubstring(text, terms, exact) ==
    \E i \in 1..Len(text), k \in 1..Len(terms) :
        LET j == i + Len(terms[k]) - 1
        IN  /\ terms[k] # <<>> /\ j <= Len(text)
            /\ EqualUnderMode(SubSeq(text, i, j), terms[k], exact)

\* The physical lines of a file, each with its newline if it has one.
RECURSIVE PhysLines(_)
PhysLines(c) ==
    IF c = <<>> THEN <<>>
    ELSE LET nl == {i \in 1..Len(c) : c[i] = "\n"}
             n  == IF nl = {} THEN Len(c) ELSE Min(nl)
         IN  <<SubSeq(c, 1, n)>> \o PhysLines(SubSeq(c, n + 1, Len(c)))

\* The index (from 0) of the physical line that byte offset off lies in.
PhysLineOf(c, off) == Cardinality({i \in 1..off : c[i] = "\n"})

\* readdir of the walk returns entry p: its parent is listed.
RECURSIVE Listed(_)
Listed(p) ==
    /\ p # SearchDir
    /\ fs[p].parent \in Paths
    /\ opendir_ok(fs[p].parent)
    /\ fs[p].parent = SearchDir \/ (Listed(fs[p].parent) /\ fs[fs[p].parent].statOK)

\* The regular files reachable from the start directory that can be read.
ReachableFiles ==
    {p \in Paths : fs[p].kind = "file" /\ Listed(p) /\ fs[p].statOK /\ fs[p].openOK}

\* The matches a correct search reports: line numbers from 0.
ReferenceSet ==
    UNION {
        {<<p, n - 1, PhysLines(fs[p].content)[n]>> :
            n \in {m \in 1..Len(PhysLines(fs[p].content)) :
                     Qualifies(PhysLines(fs[p].content)[m], argv.terms, argv.e)}}
        : p \in ReachableFiles}

\* The set of (path, line number, text) tuples written so far.
OutputSet ==
    UNION {{<<output[p][i].path, output[p][i].line_num, output[p][i].text>> :
                i \in 1..Len(output[p])}
           : p \in Paths}

\* The chunks the fgets loop cuts a file into: their start offsets.
RECURSIVE ChunkOffsets(_, _)
ChunkOffsets(c, pos) ==
    IF fgets(c, pos) = 0 THEN <<>>
    ELSE <<pos>> \o ChunkOffsets(c, pos + fgets(c, pos))

ChunkText(c, n) ==
    LET off == ChunkOffsets(c, 0)[n + 1]
    IN  SubSeq(c, off + 1, off + fgets(c, off))

\* How often chunk n of path p has been written.
TimesWritten(p, n) ==
    Cardinality({i \in 1..Len(output[p]) : output[p][i].line_num = n})

(***************************************************************************)
(* Properties                                                              *)
(***************************************************************************)
\* C1: once the process has ended normally, the set of (path, line number,
\* line text) tuples written equals the reference set: the lines of the
\* reachable regular files that hold a delimiter-bounded word equal to a
\* term under the case mode.
C1_OutputIsReference ==
    proc = "exited" => OutputSet = ReferenceSet

\* C2: the number of running File Searcher tasks (admitted by sem_wait, not
\* yet past sem_post) never exceeds the value the semaphore started with.
Running ==
    Cardinality({p \in Paths : task[p].pc \in {"start", "scan", "sem_post"}})
    + (IF stack # <<>> /\ Top.pc = "create" THEN 1 ELSE 0)

C2_RunningAtMostK ==
    sem_initialised => Running <= K

\* the walker is blocked in sem_wait while K tasks run, K > 1
C2_Witness ==
    /\ stack # <<>> /\ Top.pc = "sem_wait"
    /\ Running = K /\ K > 1 /\ sem = 0

\* C3: never do more than K File Searcher tasks hold an open file handle.
TasksHoldingHandle == {p \in handles : task[p].pc # "none"}

C3_HandlesAtMostK ==
    sem_initialised => Cardinality(TasksHoldingHandle) <= K

\* C4: a chunk read by analyze_file that holds a word equal to a term is
\* written exactly once, however many of its words and terms match.
C4_MatchingLineWrittenOnce ==
    \A p \in Paths : \A n \in 0..(task[p].line_num - 1) :
        Qualifies(ChunkText(fs[p].content, n), g_search_terms, g_exact)
            => TimesWritten(p, n) = 1

\* C5: a physical line in which a term occurs only inside a longer word is
\* never reported, whatever its length.
C5_SubstringNeverReported ==
    \A p \in Paths : \A i \in 1..Len(output[p]) :
        LET c    == fs[p].content
            off  == ChunkOffsets(c, 0)[output[p][i].line_num + 1]
            line == PhysLines(c)[PhysLineOf(c, off) + 1]
        IN  ~(HasSubstring(line, g_search_terms, g_exact)
              /\ ~Qualifies(line, g_search_terms, g_exact))

\* C6: a word matches a term iff they are byte-for-byte equal in exact mode,
\* and iff they are equal ignoring letter case otherwise.
C6_CompareByMode ==
    \A c \in cmplog : (c.result = 0) <=> EqualUnderMode(c.word, c.term, g_exact)

\* "The" has matched the term "the" in the default mode
C6_Witness ==
    /\ ~g_exact
    /\ \E c \in cmplog : c.word = w_The /\ c.term = w_the /\ c.result = 0 /\ c.printed

\* C7: a directory entry is never opened with fopen and never handed to a
\* File Searcher task.
C7_DirectoryNeverOpened ==
    \A p \in Paths : S_ISDIR(p) => p \notin handles /\ task[p].pc = "none"

\* C8: the process has not ended while the walk is under way or a launched
\* File Searcher has not finished, released its slot and closed its handle.
C8_NoExitBeforeDrain ==
    proc = "exited" =>
        /\ main_pc = "exited" /\ stack = <<>>
        /\ LiveThreads = {}
        /\ \A p \in Paths : task[p].pc \in {"none", "done"}
        /\ \A p \in Paths : Listed(p) /\ fs[p].statOK /\ fs[p].openOK
                              => task[p].pc = "done"
        /\ handles = {}
        /\ sem = K

\* the process has ended after two File Searchers ran
C8_Witness ==
    /\ proc = "exited"
    /\ Cardinality({p \in Paths : task[p].pc = "done"}) >= 2

\* C9: when the start directory cannot be opened, the run emits exactly one
\* diagnostic, launches no File Searcher, reports no match, and ends with a
\* non-zero exit status.
DiagTotal(S) == IF S = {} THEN 0 ELSE Cardinality({<<p, i>> \in S \X (1..2) : i <= diag[p]})

C9_RootFailure ==
    (proc = "exited" /\ ~opendir_ok(SearchDir)) =>
        /\ DiagTotal(Paths) = 1
        /\ \A p \in Paths : task[p].pc = "none" /\ output[p] = <<>>
        /\ exit_status # 0

\* C10: a non-root entry that cannot be classified or opened is skipped
\* with a logged diagnostic, gets no slot and no task; the walk still
\* visits everything else and the other files' matches are reported.
FailedEntry(p) ==
    Listed(p) /\ (~fs[p].statOK \/ ~fopen_ok(p) \/ (S_ISDIR(p) /\ ~opendir_ok(p)))

C10_FailedEntrySkippedAndLogged ==
    proc = "exited" =>
        /\ \A p \in Paths : FailedEntry(p) =>
              diag[p] >= 1 /\ task[p].pc = "none" /\ p \notin handles
        /\ \A p \in ReachableFiles : task[p].pc = "done"
        /\ sem = K

\* How often call x occurs in the sequence of calls cs.
Count(cs, x) == Cardinality({i \in 1..Len(cs) : cs[i] = x})

\* C11: a File Searcher ends its scan at end of file or at a read error, and
\* on either path releases its slot exactly once and closes its handle
\* exactly once; a read error (the stream of a directory) neither stops the
\* walk nor another file's scan: at the end every file is scanned to its end.
C11_ScanEndsAndReleasesOnce ==
    /\ \A p \in Paths :
        /\ Count(calls[p].worker, "sem_post") <= 1
        /\ Count(calls[p].worker, "fclose") <= 1
        /\ task[p].pc = "done" =>
            /\ Count(calls[p].worker, "sem_post") = 1
            /\ Count(calls[p].worker, "fclose") = 1
            /\ p \notin handles
            /\ IF S_ISDIR(p) THEN task[p].pos = 0 /\ output[p] = <<>>
               ELSE task[p].pos = Len(fs[p].content)
    /\ proc = "exited" =>
        /\ \A p \in Paths : task[p].pc # "none" => task[p].pc = "done"
        /\ \A p \in ReachableFiles : task[p].pc = "done"

\* the run has ended; a task stopped by a read error and a task that read
\* its file to the end and printed a match have both finished
C11_Witness ==
    /\ proc = "exited"
    /\ \E d \in Paths, f \in Paths :
        /\ S_ISDIR(d) /\ task[d].pc = "done"
        /\ fs[f].kind = "file" /\ task[f].pc = "done" /\ output[f] # <<>>

\* C12: the match lines of one file carry strictly ascending line numbers.
C12_StrictlyAscending ==
    \A p \in Paths : \A i \in 1..(Len(output[p]) - 1) :
        output[p][i].line_num < output[p][i + 1].line_num

\* The walker waits in sem_wait for a slot.
WalkerBlocked == InLs /\ Top.pc = "sem_wait" /\ sem = 0

\* C13: under fair scheduling a walker blocked in sem_wait is eventually
\* admitted and the process eventually ends; a run over an empty directory
\* ends with no match and no diagnostic.
C13_EventuallyTerminates ==
    /\ <>(proc # "running")
    /\ WalkerBlocked ~> ~WalkerBlocked
    /\ [](proc = "exited" /\ Children(fs, SearchDir) = {} /\ opendir_ok(SearchDir)
            => \A p \in Paths : output[p] = <<>> /\ diag[p] = 0)

\* The entries the walk opens and dispatches a task for.
Dispatched == {p \in Paths : Listed(p) /\ fs[p].statOK /\ fopen_ok(p)}

\* The number of chunks the fgets loop cuts content c into.
NumChunks(c) == Len(ChunkOffsets(c, 0))

\* Chunk n of content c holds a word that compares equal to a term.
ChunkMatches(c, n) ==
    LET cmps == word_loop[strtok_r[ChunkText(c, n)], FALSE]
    IN  \E i \in 1..Len(cmps) : cmps[i].result = 0

\* The tuples of the run in which every task reads the name of its stream
\* while the main thread is alive: a function of the tree, the terms and the
\* case mode alone.
NamedOutputSet ==
    UNION {{<<p, n, ChunkText(fs[p].content, n)>> :
                n \in {m \in 0..(NumChunks(fs[p].content) - 1) :
                         ChunkMatches(fs[p].content, m)}}
           : p \in Dispatched}

\* C14: the set of (path, line number, text) tuples of a complete run is
\* the same for every schedule and every directory enumeration order: it is
\* the set the inputs determine.
C14_SameOutputSet ==
    proc = "exited" => OutputSet = NamedOutputSet

\* A decimal numeral: one digit or more, and nothing else.
IsNumeral(s) == s # <<>> /\ \A i \in 1..Len(s) : isdigit(s[i])

\* The -t argument is malformed or names a level outside [1, num_cores].
BadLevel(a) ==
    a.has_t /\ (~IsNumeral(a.t) \/ atoi(a.t) < 1 \/ atoi(a.t) > NumCores)

\* C15: with a concurrency level that is malformed or outside
\* [1, number of processors] the run is aborted before traversal: no
\* sem_init, no directory listed, no file opened, no task launched.
C15_BadLevelAborts ==
    BadLevel(argv) =>
        /\ main_pc \in {"getopt", "aborted"}
        /\ main_pc = "aborted" => proc = "aborted"
        /\ ~sem_initialised
        /\ stack = <<>> /\ handles = {}
        /\ \A p \in Paths :
            /\ task[p].pc = "none"
            /\ calls[p].walker = <<>>

NotLs(c) == c # "ls"

IsPrefix(a, b) == Len(a) <= Len(b) /\ a = SubSeq(b, 1, Len(a))

\* C16: on every entry the walker calls fopen, sem_wait and pthread_create
\* in this order, each at most once, and walks on without waiting for the
\* task; the walker can take a step unless it is in sem_wait with the value
\* at zero; a worker never calls sem_wait and can always take its next step.
C16_DispatchProtocol ==
    /\ \A p \in Paths :
        /\ IsPrefix(SelectSeq(calls[p].walker, NotLs),
                    <<"fopen", "sem_wait", "pthread_create">>)
        /\ Count(calls[p].worker, "sem_wait") = 0
        /\ p \in LiveThreads /\ proc = "running" => ENABLED worker(p)
    /\ InLs /\ ~WalkerBlocked => ENABLED ls
    /\ InLs /\ ~ENABLED ls => Top.pc = "sem_wait" /\ sem = 0

\* the walker has dispatched the task of p and is at the next entry,
\* past its sem_wait, while the task of p has not started its scan
C16_Witness ==
    /\ InLs /\ Top.pc = "create"
    /\ \E p \in Paths :
        /\ p # Top.cur
        /\ calls[p].walker = <<"fopen", "sem_wait", "pthread_create">>
        /\ task[p].pc = "start"

\* C17: the line number written with a match is the index, from 0, of the
\* chunk among the chunks fgets returned; a chunk has at most line_sz - 1
\* characters and ends at the first newline; line_num counts every chunk
\* read, matching or not.
C17_LineNumberIsChunkIndex ==
    \A p \in Paths :
        LET c    == fs[p].content
            offs == ChunkOffsets(c, 0)
        IN  /\ \A i \in 1..Len(output[p]) :
                /\ output[p][i].line_num \in 0..(Len(offs) - 1)
                /\ output[p][i].text = ChunkText(c, output[p][i].line_num)
            /\ \A n \in 0..(Len(offs) - 1) :
                /\ Len(ChunkText(c, n)) \in 1..(line_sz - 1)
                /\ \A k \in 1..(Len(ChunkText(c, n)) - 1) : ChunkText(c, n)[k] # "\n"
                /\ offs[n + 1] = (IF n = 0 THEN 0 ELSE offs[n] + Len(ChunkText(c, n - 1)))
            /\ task[p].pc # "none" /\ ~S_ISDIR(p) =>
                task[p].line_num = Cardinality({k \in 1..Len(offs) : offs[k] < task[p].pos})

\* a match in the third chunk of a file, which lies in its second line, has
\* been written after a chunk without a match was counted
C17_Witness ==
    \E p \in Paths : \E i \in 1..Len(output[p]) :
        /\ output[p][i].line_num = 2
        /\ PhysLineOf(fs[p].content, ChunkOffsets(fs[p].content, 0)[3]) = 1
        /\ ~ChunkMatches(fs[p].content, 1)
        /\ task[p].pc = "done"

\* C18: when the walk is over, every reachable regular file whose open
\* succeeds has been handed to exactly one task, no other entry to any, and
\* every subdirectory has been recursed into exactly once with no task of
\* its own.
C18_OneTaskPerFile ==
    proc = "exited" =>
        \A p \in Paths :
            /\ Count(calls[p].walker, "pthread_create")
                  = (IF p \in ReachableFiles THEN 1 ELSE 0)
            /\ p \in ReachableFiles => task[p].pc = "done"
            /\ S_ISDIR(p) /\ Listed(p) /\ fs[p].statOK =>
                /\ Count(calls[p].walker, "ls") = 1
                /\ task[p].pc = "none"

\* The slots the walker has taken and no worker has given back.
Outstanding ==
    {p \in Paths : Count(calls[p].walker, "sem_wait")
                      > Count(calls[p].worker, "sem_post")}

\* C19: after sem_init the value of the semaphore lies in [0, K] and is K
\* minus the number of slots taken and not yet given back; a sem_post
\* follows a sem_wait on the same entry; only ls_sem_wait lowers the value,
\* by one, and only analyze_sem_post raises it, by one.
C19_LimiterConservation ==
    /\ [](sem_initialised =>
            /\ sem \in 0..K
            /\ sem = K - Cardinality(Outstanding)
            /\ \A p \in Paths :
                /\ Count(calls[p].worker, "sem_post")
                      <= Count(calls[p].walker, "sem_wait")
                /\ Count(calls[p].walker, "sem_wait") <= 1)
    /\ [][sem_initialised =>
            /\ sem' < sem => ls_sem_wait /\ sem' = sem - 1
            /\ sem' > sem => (\E p \in Paths : analyze_sem_post(p)) /\ sem' = sem + 1]_vars

\* one slot has been given back and another is taken
C19_Witness ==
    /\ sem_initialised /\ sem < K
    /\ \E p \in Paths : Count(calls[p].worker, "sem_post") = 1
    /\ Outstanding # {}

\* C20: once the walk has returned and every worker has finished, the
\* semaphore is back at K and no stream opened by the walk is open,
\* whether pthread_create succeeded or not.
C20_NothingLost ==
    main_pc = "exited" /\ LiveThreads = {} => sem = K /\ handles = {}

====
